---- MODULE Spec2Model ----
(***************************************************************************)
(* State-machine model of bluemira.equilibria.equilibrium.Equilibrium:     *)
(* the solve() and solve_li() call cycles, the critical-point cache and    *)
(* the full-grid flux query.                                               *)
(*                                                                         *)
(* Grid-sized arrays (flux maps, current-density maps) are abstracted to   *)
(* residues modulo NVal; the numerical collaborators (profile, boundary    *)
(* operator, linear solver, critical-point finder) are deterministic       *)
(* operators on those residues.                                            *)
(***************************************************************************)
EXTENDS Integers, Sequences, FiniteSets, TLC

\* ---------------------------------------------------------------- bounds
\* number of distinct abstract array values (flux maps, current densities)
NVal == 2
\* number of objective evaluations the nested optimizer may spend in one call
MaxEval == 2

\* ------------------------------------------------------------- constants
\* Python None for a number-valued field
None == -1
\* Python None / a stored sequence for a critical-point cache field
NonePts == [set |-> FALSE, pts |-> <<>>]
Pts(s) == [set |-> TRUE, pts |-> s]
Val == 0..(NVal - 1)
\* shape coefficient vectors the optimizer may propose
Coeffs == 0..(NVal - 1)
\* target normalised inductance and relative tolerance (TolNum / TolDen)
LiTarget == 2
TolNum == 1
TolDen == 2

Abs(a) == IF a < 0 THEN -a ELSE a

VARIABLES
    plasma,      \* self.plasma: PlasmaCoil(plasma_psi, j_tor, grid)
    jtor,        \* self._jtor: cached current density or None
    o_points,    \* self._o_points: None or sequence of O-points
    x_points,    \* self._x_points: None or sequence of X-points
    controller,  \* self.controller
    profiles,    \* self.profiles: kind and shape coefficients
    li_flag,     \* self._li_flag
    li_iter,     \* self._li_iter
    li_temp,     \* self._li_temp
    coilset,     \* self.coilset (current vector)
    psi_green,   \* self._psi_green: the coil geometry and grid it was built for
    grid,        \* self.grid, with self.x, self.z, self.dx, self.dz (lines 86-88)
    solver,      \* self._solver
    boundary,    \* self.boundary
    force_symmetry, \* self.force_symmetry
    kwargs,      \* self._kwargs["vcontrol"]
    bd,          \* a Breakdown object
    eqdsk,       \* an EQDSK file written by to_eqdsk and what was read back
    cps,         \* a ChargedParticleSolver object
    tree,        \* a Component tree
    dup,         \* a duplicate of the Equilibrium made through __getstate__
    pc,          \* position inside the call in progress, "idle" between calls
    loc,         \* local variables of the call in progress
    nfev,        \* objective evaluations started by the optimizer in this call
    trace,       \* history: steps taken by the current / last call, in order
    pre,         \* history: plasma, _jtor, cache, ... at entry of the call
    outcome      \* history: how the last call ended

gridvars == <<grid, solver, boundary, force_symmetry, kwargs>>
othervars == <<eqdsk, cps, tree, dup>>
objvars == <<plasma, jtor, o_points, x_points, controller, profiles,
             li_flag, li_iter, li_temp, coilset, psi_green, gridvars, bd,
             othervars>>
vars == <<plasma, jtor, o_points, x_points, controller, profiles,
          li_flag, li_iter, li_temp, coilset, psi_green, gridvars, bd,
          othervars, pc, loc, nfev, trace, pre, outcome>>

\* grids and coil geometries the objects may be given
Grids == {"g1", "g2"}
Geoms == {1, 2}
\* no Breakdown object has been constructed
NoBd == [exists |-> FALSE]
\* no EQDSK file has been written
NoFile == [written |-> FALSE]
\* no ChargedParticleSolver has been constructed
NoCps ==
    [exists |-> FALSE,
     params |-> [f_outer |-> 0, f_inner |-> 0, f_upper |-> 0, f_lower |-> 0],
     config |-> [f_outer |-> None, f_inner |-> None, f_upper |-> None,
                 f_lower |-> None],
     error |-> "none", queried |-> FALSE,
     ob_lfs |-> NonePts, ob_hfs |-> NonePts,
     ib_lfs |-> NonePts, ib_hfs |-> NonePts, last |-> "none"]
\* no Component has been constructed
NoTree == [exists |-> FALSE]
\* no duplicate has been made
NoDup == [exists |-> FALSE]

\* ------------------------------------------------ external collaborators
Opoint(psi) == [kind |-> "O", psi |-> psi]
Xpoint(psi) == [kind |-> "X", psi |-> psi]

\* bluemira.equilibria.find.find_OX_points: the scan of a flux map; a map
\* may have no O-point (value 0) and may have no X-point (value 1)
find_OX_points(psi) ==
    [o |-> IF psi = 0 THEN <<>> ELSE <<Opoint(psi)>>,
     x |-> IF psi = 1 THEN <<>> ELSE <<Xpoint(psi)>>]

\* Profile.jtor(x, z, psi, o_points, x_points)
ProfileJtor(coeffs, psi, o, x) == (coeffs + psi + Len(o) + Len(x)) % NVal

\* FreeBoundary.__call__(plasma_psi, jtor): boundary values from jtor
FreeBoundary(plasma_psi, j) == (plasma_psi + j) % NVal

\* rhs = -MU_0 * x * jtor; apply_boundary(rhs, plasma_psi)
Rhs(j, plasma_psi) == [src |-> j, bdry |-> plasma_psi]

\* GSSolver.__call__(rhs)
GSSolver(rhs) == (rhs.src + rhs.bdry + 1) % NVal

\* PlasmaCoil(plasma_psi, j_tor, self.grid)
PlasmaCoil(plasma_psi, j) == [psi |-> plasma_psi, jtor |-> j, grid |-> grid]

\* DummyController(psi) / VirtualController(eq, gz=2.2)
DummyController == [kind |-> "dummy", corr |-> 0]
VirtualController == [kind |-> "virtual", corr |-> 0]

\* controller.stabilise(): the feedback variant recomputes its correction
\* from the cached current density, the no-op variant does nothing
Stabilise(c, j) ==
    IF c.kind = "virtual" THEN [c EXCEPT !.corr = (j + 1) % NVal] ELSE c

\* response of a coil geometry at the nodes of a grid (greens_psi)
Response(geom) == geom

\* _remap_greens(): the matrices for the coil geometry and the grid g
Greens(g) == [geom |-> coilset.geom, grid |-> g]

\* coilset._psi_greens(self._psi_green)
CoilPsi == (coilset.current * Response(psi_green.geom)) % NVal

\* GSSolver(grid, force_symmetry=self.force_symmetry): the solver object
NewSolver(g) == [grid |-> g, sym |-> force_symmetry]

\* FreeBoundary(self.grid): the boundary operator object
NewBoundary(g) == [grid |-> g]

\* ------------------------------------------------------ Equilibrium.psi()
\* controller after a full-grid psi() query (line 1351-1352)
PsiController ==
    IF jtor # None THEN Stabilise(controller, jtor) ELSE controller

\* value returned by a full-grid psi() query (line 1353-1357)
PsiFull == (plasma.psi + CoilPsi + PsiController.corr) % NVal

\* variant: _clear_OX_points leaves the stored sequences in place
ClearOX_keep == [o |-> o_points, x |-> x_points]

\* _clear_OX_points(): the pair of cache fields after the call
ClearOX == [o |-> NonePts, x |-> NonePts]

\* variant: every call searches
NeedSearch_always(force) == TRUE

\* get_OX_points (line 1547): a search is made when both fields are None
\* or force_update is True
NeedSearch(force) == (~o_points.set /\ ~x_points.set) \/ force

\* bluemira.equilibria.find.in_plasma(x, z, psi, o_points, x_points)
in_plasma(psi, o, x) == (psi + Len(o)) % NVal

\* Equilibrium.Bp() on the full grid (lines 1258, 1284, 1309)
BpFull == (plasma.psi + plasma.jtor + coilset.current + 1) % NVal

\* bluemira.equilibria.physics.calc_li3minargs(..., psi, Bp, ..., mask)
calc_li3minargs(psi, bp, mask) == (psi + bp + mask) % NVal

\* variant: the tolerance test is strict
WithinTol_strict(l, target) ==
    Abs(l - target) * TolDen < TolNum * Abs(target)

\* abs_rel_difference(li, target) <= rel_tol, with rel_tol = TolNum / TolDen
WithinTol(l, target) == Abs(l - target) * TolDen <= TolNum * Abs(target)

\* snapshot of the object taken when a call is entered
Snapshot == [plasma |-> plasma, jtor |-> jtor, o_points |-> o_points,
             x_points |-> x_points, controller |-> controller,
             profiles |-> profiles, li_iter |-> li_iter, li_temp |-> li_temp,
             solver |-> solver]

NoLoc == [jtor |-> None, psi |-> None, o_points |-> <<>>, x_points |-> <<>>,
          plasma_psi |-> None, rhs |-> [src |-> None, bdry |-> None],
          x |-> None, mask |-> None, arg_jtor |-> None, arg_psi |-> None]

\* ------------------------------------------------------------------ Init
\* State after Equilibrium.__init__ (lines 807-836)
Init ==
    /\ grid = "g1"
    /\ \E p \in Val, j \in Val \cup {None} :
          /\ plasma = PlasmaCoil(p, j)
          /\ jtor = j
    /\ o_points = NonePts
    /\ x_points = NonePts
    /\ \E k \in {"plain", "betali"} :
          /\ profiles = [kind |-> k, coeffs |-> 0]
          /\ li_flag = (k = "betali")
          /\ li_iter = IF k = "betali" THEN 0 ELSE None
    /\ li_temp = None
    /\ controller \in {DummyController, VirtualController}
    /\ coilset = [current |-> 1, geom |-> 1]
    /\ psi_green = Greens("g1")
    /\ force_symmetry = FALSE
    /\ solver = NewSolver("g1")
    /\ boundary = NewBoundary("g1")
    /\ kwargs = IF controller.kind = "virtual" THEN "virtual" ELSE "none"
    /\ bd = NoBd
    /\ eqdsk = NoFile
    /\ cps = NoCps
    /\ tree = NoTree
    /\ dup = NoDup
    /\ pc = "idle"
    /\ loc = NoLoc
    /\ nfev = 0
    /\ trace = <<>>
    /\ pre = Snapshot
    /\ outcome = "none"

\* ------------------------------------------------------ Equilibrium.solve
\* variant: the supplied current density does not skip the search branch
SolveCall_always(j, p) ==
    /\ pc = "idle"
    /\ o_points' = ClearOX.o
    /\ x_points' = ClearOX.x
    /\ loc' = [NoLoc EXCEPT !.jtor = j, !.psi = p, !.arg_jtor = j,
                             !.arg_psi = p]
    /\ pc' = "s_psi"
    /\ trace' = <<"solve", "clear">>
    /\ pre' = Snapshot
    /\ outcome' = "running"
    /\ nfev' = 0
    /\ UNCHANGED <<plasma, jtor, controller, profiles, li_flag, li_iter,
                   li_temp, coilset, psi_green, gridvars, bd, othervars>>

\* entry of solve(jtor, psi): line 1084 clears the cache
SolveCall(j, p) ==
    /\ pc = "idle"
    /\ o_points' = ClearOX.o
    /\ x_points' = ClearOX.x
    /\ loc' = [NoLoc EXCEPT !.jtor = j, !.psi = p, !.arg_jtor = j,
                             !.arg_psi = p]
    /\ pc' = IF j = None THEN "s_psi" ELSE "s_boundary"
    /\ trace' = <<"solve", "clear">>
    /\ pre' = Snapshot
    /\ outcome' = "running"
    /\ nfev' = 0
    /\ UNCHANGED <<plasma, jtor, controller, profiles, li_flag, li_iter,
                   li_temp, coilset, psi_green, gridvars, bd, othervars>>

\* lines 1087-1088: psi defaults to the full-grid flux
SolvePsi ==
    /\ pc = "s_psi"
    /\ IF loc.psi = None
         THEN /\ loc' = [loc EXCEPT !.psi = PsiFull]
              /\ controller' = PsiController
         ELSE UNCHANGED <<loc, controller>>
    /\ pc' = "s_search"
    /\ UNCHANGED <<plasma, jtor, o_points, x_points, profiles, li_flag,
                   li_iter, li_temp, coilset, psi_green, gridvars, bd, othervars, nfev, trace, pre,
                   outcome>>

\* line 1089: get_OX_points(psi=psi, force_update=True)
SolveSearch ==
    /\ pc = "s_search"
    /\ LET r == find_OX_points(loc.psi) IN
          /\ o_points' = Pts(r.o)
          /\ x_points' = Pts(r.x)
          /\ loc' = [loc EXCEPT !.o_points = r.o, !.x_points = r.x]
    /\ pc' = "s_check"
    /\ trace' = Append(trace, "search")
    /\ UNCHANGED <<plasma, jtor, controller, profiles, li_flag, li_iter,
                   li_temp, coilset, psi_green, gridvars, bd, othervars, nfev, pre, outcome>>

\* variant: the empty O-point list is not checked and the solve goes on
SolveNoOPoint_goon ==
    /\ pc = "s_check"
    /\ loc.o_points = <<>>
    /\ loc' = [loc EXCEPT !.jtor =
                 ProfileJtor(profiles.coeffs, loc.psi, loc.o_points,
                             loc.x_points)]
    /\ pc' = "s_boundary"
    /\ trace' = Append(trace, "jtor")
    /\ UNCHANGED <<objvars, nfev, pre, outcome>>

\* lines 1091-1092: no O-point raises EquilibriaError
SolveNoOPoint ==
    /\ pc = "s_check"
    /\ loc.o_points = <<>>
    /\ pc' = "idle"
    /\ outcome' = "EquilibriaError"
    /\ UNCHANGED <<objvars, loc, nfev, trace, pre>>

\* line 1093: jtor = self.profiles.jtor(...)
SolveJtor ==
    /\ pc = "s_check"
    /\ loc.o_points # <<>>
    /\ loc' = [loc EXCEPT !.jtor =
                 ProfileJtor(profiles.coeffs, loc.psi, loc.o_points,
                             loc.x_points)]
    /\ pc' = "s_boundary"
    /\ trace' = Append(trace, "jtor")
    /\ UNCHANGED <<objvars, nfev, pre, outcome>>

\* lines 1095-1096: plasma_psi = self.plasma.psi(); self.boundary(...)
SolveBoundary ==
    /\ pc = "s_boundary"
    /\ loc' = [loc EXCEPT !.plasma_psi = FreeBoundary(plasma.psi, loc.jtor)]
    /\ pc' = "s_rhs"
    /\ trace' = Append(trace, "boundary")
    /\ UNCHANGED <<objvars, nfev, pre, outcome>>

\* variant: the boundary update is applied a second time after the
\* right-hand side has been assembled
SolveRhs_again ==
    /\ pc = "s_rhs"
    /\ loc' = [loc EXCEPT !.rhs = Rhs(loc.jtor, loc.plasma_psi)]
    /\ pc' = IF "rhs" \in {trace[i] : i \in DOMAIN trace}
               THEN "s_invert" ELSE "s_boundary"
    /\ trace' = Append(trace, "rhs")
    /\ UNCHANGED <<objvars, nfev, pre, outcome>>

\* lines 1097-1098: right-hand side
SolveRhs ==
    /\ pc = "s_rhs"
    /\ loc' = [loc EXCEPT !.rhs = Rhs(loc.jtor, loc.plasma_psi)]
    /\ pc' = "s_invert"
    /\ trace' = Append(trace, "rhs")
    /\ UNCHANGED <<objvars, nfev, pre, outcome>>

\* line 1100: plasma_psi = self._solver(rhs)
SolveInvert ==
    /\ pc = "s_invert"
    /\ loc' = [loc EXCEPT !.plasma_psi = GSSolver(loc.rhs)]
    /\ pc' = "s_update"
    /\ trace' = Append(trace, "invert")
    /\ UNCHANGED <<objvars, nfev, pre, outcome>>

\* variant: the stored _jtor is left as it was at the end of the solve
SolveUpdate_keepjtor ==
    /\ pc = "s_update"
    /\ plasma' = PlasmaCoil(loc.plasma_psi, loc.jtor)
    /\ pc' = "idle"
    /\ trace' = Append(trace, "update")
    /\ outcome' = "ok"
    /\ UNCHANGED <<jtor, o_points, x_points, controller, profiles, li_flag,
                   li_iter, li_temp, coilset, psi_green, gridvars, bd, othervars, loc,
                   nfev, pre>>

\* lines 1101-1104: _update_plasma, self._jtor = jtor, return
SolveUpdate ==
    /\ pc = "s_update"
    /\ plasma' = PlasmaCoil(loc.plasma_psi, loc.jtor)
    /\ jtor' = loc.jtor
    /\ pc' = "idle"
    /\ trace' = Append(trace, "update")
    /\ outcome' = "ok"
    /\ UNCHANGED <<o_points, x_points, controller, profiles, li_flag,
                   li_iter, li_temp, coilset, psi_green, gridvars, bd, othervars, loc, nfev, pre>>

Solve ==
    \/ \E j \in Val \cup {None}, p \in Val \cup {None} :
          /\ j # None => p = None
          /\ SolveCall(j, p)
    \/ SolvePsi
    \/ SolveSearch
    \/ SolveNoOPoint
    \/ SolveJtor
    \/ SolveBoundary
    \/ SolveRhs
    \/ SolveInvert
    \/ SolveUpdate

\* ------------------------------------------- Equilibrium.get_OX_points
\* get_OX_points(psi, force_update) called between solves (lines 1547-1556)
GetOXPoints(p, force) ==
    /\ pc = "idle"
    /\ IF NeedSearch(force)
         THEN /\ LET r == find_OX_points(IF p = None THEN PsiFull ELSE p) IN
                    /\ o_points' = Pts(r.o)
                    /\ x_points' = Pts(r.x)
              /\ controller' = IF p = None THEN PsiController ELSE controller
              /\ trace' = <<"get_OX_points", "search">>
         ELSE /\ UNCHANGED <<o_points, x_points, controller>>
              /\ trace' = <<"get_OX_points">>
    /\ pre' = Snapshot
    /\ outcome' = "ok"
    /\ loc' = NoLoc
    /\ nfev' = 0
    /\ UNCHANGED <<plasma, jtor, profiles, li_flag, li_iter, li_temp,
                   coilset, psi_green, gridvars, bd, othervars, pc>>

\* full-grid psi() query between solves (lines 1349-1357)
PsiQuery ==
    /\ pc = "idle"
    /\ controller' = PsiController
    /\ trace' = <<"psi">>
    /\ pre' = Snapshot
    /\ outcome' = "ok"
    /\ loc' = NoLoc
    /\ nfev' = 0
    /\ UNCHANGED <<plasma, jtor, o_points, x_points, profiles, li_flag,
                   li_iter, li_temp, coilset, psi_green, gridvars, bd, othervars, pc>>

\* --------------------------------------------------- Equilibrium.solve_li
\* variant: the cache is cleared before the capability check
SolveLiRejected_clear(p) ==
    /\ pc = "idle"
    /\ ~li_flag
    /\ o_points' = ClearOX.o
    /\ x_points' = ClearOX.x
    /\ trace' = <<"solve_li">>
    /\ pre' = Snapshot
    /\ outcome' = "EquilibriaError"
    /\ loc' = NoLoc
    /\ nfev' = 0
    /\ UNCHANGED <<plasma, jtor, controller, profiles, li_flag, li_iter,
                   li_temp, coilset, psi_green, gridvars, bd, othervars, pc>>

\* lines 1135-1136: the capability check fails
SolveLiRejected(p) ==
    /\ pc = "idle"
    /\ ~li_flag
    /\ trace' = <<"solve_li">>
    /\ pre' = Snapshot
    /\ outcome' = "EquilibriaError"
    /\ loc' = NoLoc
    /\ nfev' = 0
    /\ UNCHANGED <<objvars, pc>>

\* lines 1137-1138: cache cleared, iteration counter reset
SolveLiCall(p) ==
    /\ pc = "idle"
    /\ li_flag
    /\ o_points' = ClearOX.o
    /\ x_points' = ClearOX.x
    /\ li_iter' = 0
    /\ loc' = [NoLoc EXCEPT !.psi = p, !.arg_psi = p]
    /\ pc' = "l_psi"
    /\ trace' = <<"solve_li", "clear">>
    /\ pre' = Snapshot
    /\ outcome' = "running"
    /\ nfev' = 0
    /\ UNCHANGED <<plasma, jtor, controller, profiles, li_flag, li_temp,
                   coilset, psi_green, gridvars, bd, othervars>>

\* lines 1139-1140
SolveLiPsi ==
    /\ pc = "l_psi"
    /\ IF loc.psi = None
         THEN /\ loc' = [loc EXCEPT !.psi = PsiFull]
              /\ controller' = PsiController
         ELSE UNCHANGED <<loc, controller>>
    /\ pc' = "l_search"
    /\ UNCHANGED <<plasma, jtor, o_points, x_points, profiles, li_flag,
                   li_iter, li_temp, coilset, psi_green, gridvars, bd, othervars, nfev, trace, pre,
                   outcome>>

\* lines 1142-1143: the one critical-point search and the plasma mask
SolveLiSearch ==
    /\ pc = "l_search"
    /\ LET r == find_OX_points(loc.psi) IN
          /\ o_points' = Pts(r.o)
          /\ x_points' = Pts(r.x)
          /\ loc' = [loc EXCEPT !.o_points = r.o, !.x_points = r.x,
                                !.mask = in_plasma(loc.psi, r.o, r.x)]
    /\ pc' = "l_opt"
    /\ trace' = Append(trace, "search")
    /\ UNCHANGED <<plasma, jtor, controller, profiles, li_flag, li_iter,
                   li_temp, coilset, psi_green, gridvars, bd, othervars, nfev, pre, outcome>>

\* scipy minimize (lines 1182-1188) calls the objective: first at the
\* starting coefficients, afterwards at any point, within its budget
OptEvaluate(x) ==
    /\ pc = "l_opt"
    /\ nfev < MaxEval
    /\ nfev = 0 => x = profiles.coeffs
    /\ loc' = [loc EXCEPT !.x = x]
    /\ nfev' = nfev + 1
    /\ pc' = "e_jtor"
    /\ UNCHANGED <<objvars, trace, pre, outcome>>

\* variant: every objective evaluation locates the critical points again
\* on the current flux
EvalJtor_research ==
    /\ pc = "e_jtor"
    /\ profiles' = [profiles EXCEPT !.coeffs = loc.x]
    /\ LET r == find_OX_points(PsiFull) IN
          /\ o_points' = Pts(r.o)
          /\ x_points' = Pts(r.x)
          /\ loc' = [loc EXCEPT !.o_points = r.o, !.x_points = r.x,
                                !.jtor = ProfileJtor(loc.x, loc.psi, r.o, r.x)]
    /\ controller' = PsiController
    /\ pc' = "e_solve"
    /\ trace' = Append(trace, "eval")
    /\ UNCHANGED <<plasma, jtor, li_flag, li_iter, li_temp, coilset,
                   psi_green, gridvars, bd, othervars, nfev, pre, outcome>>

\* minimise_dli, lines 1150-1151
EvalJtor ==
    /\ pc = "e_jtor"
    /\ profiles' = [profiles EXCEPT !.coeffs = loc.x]
    /\ loc' = [loc EXCEPT !.jtor =
                 ProfileJtor(loc.x, loc.psi, loc.o_points, loc.x_points)]
    /\ pc' = "e_solve"
    /\ trace' = Append(trace, "eval")
    /\ UNCHANGED <<plasma, jtor, o_points, x_points, controller, li_flag,
                   li_iter, li_temp, coilset, psi_green, gridvars, bd, othervars, nfev, pre, outcome>>

\* minimise_dli, lines 1152-1158
EvalSolve ==
    /\ pc = "e_solve"
    /\ LET bpsi == FreeBoundary(plasma.psi, loc.jtor)
           rhs == Rhs(loc.jtor, bpsi)
       IN  /\ plasma' = PlasmaCoil(GSSolver(rhs), loc.jtor)
           /\ loc' = [loc EXCEPT !.rhs = rhs, !.plasma_psi = GSSolver(rhs)]
    /\ pc' = "e_li"
    /\ UNCHANGED <<jtor, o_points, x_points, controller, profiles, li_flag,
                   li_iter, li_temp, coilset, psi_green, gridvars, bd, othervars, nfev, trace, pre,
                   outcome>>

\* minimise_dli, lines 1159-1171
EvalLi ==
    /\ pc = "e_li"
    /\ controller' = PsiController
    /\ li_temp' = calc_li3minargs(PsiFull, BpFull, loc.mask)
    /\ jtor' = loc.jtor
    /\ pc' = "e_test"
    /\ UNCHANGED <<plasma, o_points, x_points, profiles, li_flag, li_iter,
                   coilset, psi_green, gridvars, bd, othervars, loc, nfev, trace, pre, outcome>>

\* variant: the handler of the early exit starts the optimizer again
EvalStop_retry ==
    /\ pc = "e_test"
    /\ WithinTol(li_temp, LiTarget)
    /\ pc' = "l_opt"
    /\ nfev' = 0
    /\ trace' = <<"solve_li", "clear", "search">>
    /\ UNCHANGED <<objvars, loc, pre, outcome>>

\* minimise_dli, lines 1172-1175 and 1192-1193: StopIteration is caught
EvalStop ==
    /\ pc = "e_test"
    /\ WithinTol(li_temp, LiTarget)
    /\ pc' = "idle"
    /\ trace' = Append(trace, "stop")
    /\ outcome' = "ok"
    /\ UNCHANGED <<objvars, loc, nfev, pre>>

\* minimise_dli, lines 1176-1178
EvalReturn ==
    /\ pc = "e_test"
    /\ ~WithinTol(li_temp, LiTarget)
    /\ li_iter' = li_iter + 1
    /\ pc' = "l_opt"
    /\ UNCHANGED <<plasma, jtor, o_points, x_points, controller, profiles,
                   li_flag, li_temp, coilset, psi_green, gridvars, bd, othervars, loc, nfev, trace,
                   pre, outcome>>

\* minimize returns; lines 1189-1190 with a successful result
OptFinish(xstar) ==
    /\ pc = "l_opt"
    /\ nfev >= 1
    /\ profiles' = [profiles EXCEPT !.coeffs = xstar]
    /\ pc' = "idle"
    /\ trace' = Append(trace, "finish")
    /\ outcome' = "ok"
    /\ UNCHANGED <<plasma, jtor, o_points, x_points, controller, li_flag,
                   li_iter, li_temp, coilset, psi_green, gridvars, bd, othervars, loc, nfev, pre>>

\* minimize returns; line 1189 raises on an unsuccessful result
OptFail ==
    /\ pc = "l_opt"
    /\ nfev >= 1
    /\ pc' = "idle"
    /\ trace' = Append(trace, "fail")
    /\ outcome' = "OptimisationError"
    /\ UNCHANGED <<objvars, loc, nfev, pre>>

SolveLi ==
    \/ \E p \in Val \cup {None} : SolveLiRejected(p)
    \/ \E p \in Val \cup {None} : SolveLiCall(p)
    \/ SolveLiPsi
    \/ SolveLiSearch
    \/ \E x \in Coeffs : OptEvaluate(x)
    \/ EvalJtor
    \/ EvalSolve
    \/ EvalLi
    \/ EvalStop
    \/ EvalReturn
    \/ \E x \in Coeffs : OptFinish(x)
    \/ OptFail

Query ==
    \/ \E p \in Val \cup {None}, f \in BOOLEAN : GetOXPoints(p, f)
    \/ PsiQuery

Next == Solve \/ SolveLi \/ Query

Spec == Init /\ [][Next]_vars

\* the steps inside a call, which run to completion once the call is entered
CallStep ==
    \/ SolvePsi \/ SolveSearch \/ SolveNoOPoint \/ SolveJtor
    \/ SolveBoundary \/ SolveRhs \/ SolveInvert \/ SolveUpdate
    \/ SolveLiPsi \/ SolveLiSearch
    \/ (\E x \in Coeffs : OptEvaluate(x))
    \/ EvalJtor \/ EvalSolve \/ EvalLi \/ EvalStop \/ EvalReturn
    \/ (\E x \in Coeffs : OptFinish(x)) \/ OptFail

\* a call is synchronous: the caller is blocked until it returns or raises
FairSpec == Init /\ [][Next]_vars /\ WF_vars(CallStep)

\* ------------------------------------------------- reentrant invocation
\* A second caller invokes solve(jtor=j) on the object while a solve_li()
\* is in progress. Neither solve (lines 1084-1104) nor solve_li (lines
\* 1135-1138) tests for a call in progress, so the second call is admitted
\* and runs: it clears the cache, skips the search, and replaces the plasma
\* model and the stored _jtor. The first call then resumes where it was.
\* One second caller per solve_li call is considered.
ReenterSolve(j) ==
    /\ pc \in {"l_psi", "l_search", "l_opt", "e_jtor", "e_solve", "e_li",
               "e_test"}
    /\ \A i \in DOMAIN trace : trace[i] # "reenter"
    /\ o_points' = ClearOX.o
    /\ x_points' = ClearOX.x
    /\ plasma' = PlasmaCoil(GSSolver(Rhs(j, FreeBoundary(plasma.psi, j))), j)
    /\ jtor' = j
    /\ trace' = Append(trace, "reenter")
    /\ UNCHANGED <<controller, profiles, li_flag, li_iter, li_temp, coilset,
                   psi_green, gridvars, bd, othervars, pc, loc, nfev, pre, outcome>>

ReentrantNext == SolveLi \/ (\E j \in Val : ReenterSolve(j))

ReentrantSpec == Init /\ [][ReentrantNext]_vars

\* ------------------------------------- construction, grid and controller
\* vertical-control selections a caller may pass: None, "virtual",
\* "feedback" and any other string
Selections == {"none", "virtual", "feedback", "other"}

\* set_vcontrol (lines 1052-1061): how the call ends for a selection
SelectOutcome(v) ==
    IF v \in {"none", "virtual"} THEN "ok"
    ELSE IF v = "feedback" THEN "NotImplementedError" ELSE "ValueError"

\* variant: a selection that is not recognised falls back to the no-op
\* controller
SelectController_lenient(v) ==
    IF v = "virtual" THEN VirtualController ELSE DummyController

\* set_vcontrol (lines 1052-1057): the controller built for a selection
SelectController(v) ==
    IF v = "virtual" THEN VirtualController
    ELSE IF v = "none" THEN DummyController
    ELSE controller

\* the initial flux guess of _set_init_plasma (lines 474-480)
InitGuess == 1

\* coilset.psi(x, z): the coil flux computed from the present coil geometry
CoilPsiPoint == (coilset.current * Response(coilset.geom)) % NVal

\* Equilibrium._set_init_plasma (lines 1035-1040): the plasma model for an
\* initial flux p (None: the guess) on grid g, with no current density
InitPlasma(p, g) ==
    [psi |-> ((IF p = None THEN InitGuess ELSE p) + NVal - CoilPsiPoint)
               % NVal,
     jtor |-> None,
     grid |-> g]

\* no Equilibrium has been constructed yet
GridInit ==
    /\ grid = "none"
    /\ plasma = [psi |-> None, jtor |-> None, grid |-> "none"]
    /\ jtor = None
    /\ o_points = NonePts
    /\ x_points = NonePts
    /\ profiles = [kind |-> "none", coeffs |-> 0]
    /\ li_flag = FALSE
    /\ li_iter = None
    /\ li_temp = None
    /\ controller = [kind |-> "none", corr |-> 0]
    /\ coilset = [current |-> 1, geom |-> 1]
    /\ psi_green = [geom |-> None, grid |-> "none"]
    /\ force_symmetry = FALSE
    /\ solver = [grid |-> "none", sym |-> FALSE]
    /\ boundary = [grid |-> "none"]
    /\ kwargs = "none"
    /\ bd = NoBd
    /\ eqdsk = NoFile
    /\ cps = NoCps
    /\ tree = NoTree
    /\ dup = NoDup
    /\ pc = "new"
    /\ loc = NoLoc
    /\ nfev = 0
    /\ trace = <<>>
    /\ pre = Snapshot
    /\ outcome = "none"

\* Equilibrium.__init__ (lines 807-836) with default psi and jtor: the
\* selection is validated by the set_vcontrol call of line 832; a raise
\* there leaves no object
Construct(v, k, g, sym) ==
    /\ pc = "new"
    /\ trace' = <<"construct", v>>
    /\ outcome' = SelectOutcome(v)
    /\ IF SelectOutcome(v) = "ok"
         THEN /\ jtor' = None
              /\ profiles' = [kind |-> k, coeffs |-> 0]
              /\ o_points' = NonePts
              /\ x_points' = NonePts
              /\ li_flag' = (k = "betali")
              /\ li_iter' = IF k = "betali" THEN 0 ELSE None
              /\ li_temp' = None
              /\ force_symmetry' = sym
              /\ grid' = g
              /\ solver' = [grid |-> g, sym |-> sym]
              /\ psi_green' = Greens(g)
              /\ plasma' = InitPlasma(None, g)
              /\ boundary' = NewBoundary(g)
              /\ controller' = SelectController(v)
              /\ kwargs' = v
              /\ pc' = "idle"
              /\ pre' = [plasma |-> plasma', jtor |-> jtor',
                         o_points |-> o_points', x_points |-> x_points',
                         controller |-> controller', profiles |-> profiles',
                         li_iter |-> li_iter', li_temp |-> li_temp',
                         solver |-> solver']
              /\ UNCHANGED <<coilset, bd, othervars, loc, nfev>>
         ELSE UNCHANGED <<objvars, pc, loc, nfev, pre>>

\* variant: set_grid stores the grid and keeps the solver it had
SetGrid_keep(g) ==
    /\ pc = "idle"
    /\ grid' = g
    /\ trace' = <<"set_grid">>
    /\ pre' = Snapshot
    /\ outcome' = "ok"
    /\ loc' = NoLoc
    /\ nfev' = 0
    /\ UNCHANGED <<plasma, jtor, o_points, x_points, controller, profiles,
                   li_flag, li_iter, li_temp, coilset, psi_green, solver,
                   boundary, force_symmetry, kwargs, bd, othervars, pc>>

\* Equilibrium.set_grid (lines 1006-1018) with MHDState.set_grid (76-88)
SetGrid(g) ==
    /\ pc = "idle"
    /\ grid' = g
    /\ solver' = NewSolver(g)
    /\ trace' = <<"set_grid">>
    /\ pre' = Snapshot
    /\ outcome' = "ok"
    /\ loc' = NoLoc
    /\ nfev' = 0
    /\ UNCHANGED <<plasma, jtor, o_points, x_points, controller, profiles,
                   li_flag, li_iter, li_temp, coilset, psi_green, boundary,
                   force_symmetry, kwargs, bd, othervars, pc>>

\* Equilibrium.__setstate__ (lines 998-1004) on a dict from __getstate__:
\* every field as it was, the solver rebuilt by set_grid(self.grid)
SetState ==
    /\ pc = "idle"
    /\ solver' = NewSolver(grid)
    /\ trace' = <<"setstate">>
    /\ pre' = Snapshot
    /\ outcome' = "ok"
    /\ loc' = NoLoc
    /\ nfev' = 0
    /\ UNCHANGED <<plasma, jtor, o_points, x_points, controller, profiles,
                   li_flag, li_iter, li_temp, coilset, psi_green, grid,
                   boundary, force_symmetry, kwargs, bd, othervars, pc>>

\* variant: reset_grid keeps the Green's matrices it had
ResetGrid_noremap(g, p) ==
    /\ pc = "idle"
    /\ grid' = g
    /\ solver' = NewSolver(g)
    /\ plasma' = InitPlasma(p, g)
    /\ controller' = SelectController(kwargs)
    /\ trace' = <<"reset_grid">>
    /\ pre' = Snapshot
    /\ outcome' = "ok"
    /\ loc' = NoLoc
    /\ nfev' = 0
    /\ UNCHANGED <<jtor, o_points, x_points, profiles, li_flag, li_iter,
                   li_temp, coilset, psi_green, boundary, force_symmetry,
                   kwargs, bd, othervars, pc>>

\* Equilibrium.reset_grid(grid, psi=p) (lines 1020-1027, 458-483,
\* 1029-1040): set_grid, remap of the Green's matrices, a new plasma model
\* with no current density, and the controller of the stored selection
ResetGrid(g, p) ==
    /\ pc = "idle"
    /\ grid' = g
    /\ solver' = NewSolver(g)
    /\ psi_green' = Greens(g)
    /\ plasma' = InitPlasma(p, g)
    /\ controller' = SelectController(kwargs)
    /\ trace' = <<"reset_grid">>
    /\ pre' = Snapshot
    /\ outcome' = "ok"
    /\ loc' = NoLoc
    /\ nfev' = 0
    /\ UNCHANGED <<jtor, o_points, x_points, profiles, li_flag, li_iter,
                   li_temp, coilset, boundary, force_symmetry, kwargs, bd, othervars,
                   pc>>

\* Equilibrium.reset_grid(grid, vcontrol=v): line 1024 hands the keyword to
\* CoilSetMHDState.reset_grid(grid, psi=None), which does not take it
ResetGridVcontrol(g, v) ==
    /\ pc = "idle"
    /\ trace' = <<"reset_grid", v>>
    /\ pre' = Snapshot
    /\ outcome' = "TypeError"
    /\ loc' = NoLoc
    /\ nfev' = 0
    /\ UNCHANGED <<objvars, pc>>

\* Equilibrium.set_vcontrol(v) (lines 1042-1061)
SetVcontrol(v) ==
    /\ pc = "idle"
    /\ controller' = SelectController(v)
    /\ trace' = <<"set_vcontrol", v>>
    /\ pre' = Snapshot
    /\ outcome' = SelectOutcome(v)
    /\ loc' = NoLoc
    /\ nfev' = 0
    /\ UNCHANGED <<plasma, jtor, o_points, x_points, profiles, li_flag,
                   li_iter, li_temp, coilset, psi_green, gridvars, bd, othervars, pc>>

\* the coils of the coil set are moved or re-meshed by their owner
MoveCoil(gm) ==
    /\ pc = "idle"
    /\ gm # coilset.geom
    /\ coilset' = [coilset EXCEPT !.geom = gm]
    /\ trace' = <<"move_coil">>
    /\ pre' = Snapshot
    /\ outcome' = "ok"
    /\ loc' = NoLoc
    /\ nfev' = 0
    /\ UNCHANGED <<plasma, jtor, o_points, x_points, controller, profiles,
                   li_flag, li_iter, li_temp, psi_green, gridvars, bd, othervars, pc>>

\* value returned by a point query psi(x, z) at a grid node (line 1359)
PsiPoint == (plasma.psi + CoilPsiPoint) % NVal

\* ------------------------------------------- queries and the controller
\* variant: a point query stabilises like a full-grid query
PsiPointQuery_stab ==
    /\ pc = "idle"
    /\ controller' = PsiController
    /\ trace' = <<"psi_point">>
    /\ pre' = Snapshot
    /\ outcome' = "ok"
    /\ loc' = [NoLoc EXCEPT !.psi = PsiPoint]
    /\ nfev' = 0
    /\ UNCHANGED <<plasma, jtor, o_points, x_points, profiles, li_flag,
                   li_iter, li_temp, coilset, psi_green, gridvars, bd,
                   othervars, pc>>

\* point query psi(x, z) between solves (line 1359); the value returned is
\* kept in loc.psi
PsiPointQuery ==
    /\ pc = "idle"
    /\ trace' = <<"psi_point">>
    /\ pre' = Snapshot
    /\ outcome' = "ok"
    /\ loc' = [NoLoc EXCEPT !.psi = PsiPoint]
    /\ nfev' = 0
    /\ UNCHANGED <<objvars, pc>>

\* full-grid and point queries Bx, Bz, Bp (lines 1257-1260, 1283-1286,
\* 1309): they read the plasma model, the matrices and the coil set
FieldQuery ==
    /\ pc = "idle"
    /\ trace' = <<"field">>
    /\ pre' = Snapshot
    /\ outcome' = "ok"
    /\ loc' = NoLoc
    /\ nfev' = 0
    /\ UNCHANGED <<objvars, pc>>

GridOps ==
    \/ \E v \in Selections, g \in Grids : Construct(v, "plain", g, FALSE)
    \/ \E g \in Grids : SetGrid(g)
    \/ \E g \in Grids, p \in Val \cup {None} : ResetGrid(g, p)
    \/ \E g \in Grids, v \in Selections : ResetGridVcontrol(g, v)
    \/ \E v \in Selections : SetVcontrol(v)
    \/ \E gm \in Geoms : MoveCoil(gm)
    \/ PsiQuery
    \/ PsiPointQuery

GridSolve ==
    \/ SolveCall(None, None)
    \/ SolvePsi \/ SolveSearch \/ SolveNoOPoint \/ SolveJtor
    \/ SolveBoundary \/ SolveRhs \/ SolveInvert \/ SolveUpdate

GridNext == GridOps \/ GridSolve

GridSpec == GridInit /\ [][GridNext]_vars

LiSolve ==
    \/ GridSolve
    \/ (\E p \in Val \cup {None} : SolveLiCall(p))
    \/ SolveLiPsi \/ SolveLiSearch
    \/ (\E x \in Coeffs : OptEvaluate(x))
    \/ EvalJtor \/ EvalSolve \/ EvalLi \/ EvalStop \/ EvalReturn
    \/ (\E x \in Coeffs : OptFinish(x)) \/ OptFail

SolverOps ==
    \/ \E g \in Grids, sym \in BOOLEAN : Construct("none", "betali", g, sym)
    \/ \E g \in Grids : SetGrid(g)
    \/ SetState
    \/ \E g \in Grids : ResetGrid(g, None)

SolverNext == SolverOps \/ LiSolve

SolverSpec == GridInit /\ [][SolverNext]_vars

RemapOps ==
    \/ Construct("none", "betali", "g1", FALSE)
    \/ \E g \in Grids : ResetGrid(g, None)
    \/ SetVcontrol("virtual")
    \/ \E gm \in Geoms : MoveCoil(gm)
    \/ PsiQuery
    \/ PsiPointQuery
    \/ FieldQuery

RemapNext == RemapOps \/ LiSolve

RemapSpec == GridInit /\ [][RemapNext]_vars

\* -------------------------------------------------------------- Breakdown
\* positions along a line through the grid: the nodes the breakdown point
\* may be set to; the breakdown region of a point is the point and its
\* neighbours, its boundary the neighbours
Nodes == {0, 1, 2}
RegionBoundary(b) == {n \in Nodes : n = b - 1 \/ n = b + 1}

\* coil sets a Breakdown may be given
CoilSets == [current : Val, geom : Geoms]

\* coilset.psi(x, z) at node n: computed from the present geometry
CoilPsiAt(cs, n) == (cs.current * (Response(cs.geom) + n)) % NVal

\* coilset._psi_greens(self._psi_green): the map over the nodes, from the
\* cached matrices and the present currents
GreensMap(cs, green) ==
    [n \in Nodes |-> (cs.current * (Response(green.geom) + n)) % NVal]

NoMap == [n \in Nodes |-> None]

\* NoPlasmaCoil(grid)
NoPlasmaCoil(g) == [kind |-> "none", grid |-> g, psi |-> 0]

\* grid.x_min and grid.x_max of the grids a Breakdown may be given
GridX(g) ==
    IF g = "g1" THEN [x_min |-> 0, x_max |-> 2] ELSE [x_min |-> 2, x_max |-> 4]

\* line 518: x_mid = grid.x_min + 0.5 * (grid.x_max + grid.x_min)
DefaultPoint(g) == GridX(g).x_min + (GridX(g).x_max + GridX(g).x_min) \div 2

\* variant: the constructor keeps the flux it was given as a plasma model
BdConstruct_usepsi(cs, g, p, b, ok) ==
    /\ ~bd.exists
    /\ bd' = [exists |-> TRUE, coilset |-> cs, grid |-> g,
              psi_green |-> [geom |-> cs.geom, grid |-> g],
              plasma |-> IF p = None THEN NoPlasmaCoil(g)
                         ELSE [kind |-> "plasma", grid |-> g, psi |-> p],
              breakdown_point |-> IF b = None THEN DefaultPoint(g) ELSE b,
              arg_point |-> b, init_psi |-> p, consistent |-> ok,
              last |-> "construct", ret |-> None, map |-> NoMap]
    /\ UNCHANGED <<plasma, jtor, o_points, x_points, controller, profiles,
                   li_flag, li_iter, li_temp, coilset, psi_green, gridvars, othervars,
                   pc, loc, nfev, trace, pre, outcome>>

\* Breakdown.__init__(coilset, grid, psi, breakdown_point=b) (lines
\* 502-520): the flux returned by _set_init_plasma is dropped, the plasma
\* is NoPlasmaCoil(grid); nothing in it compares the coil set with the
\* grid; the breakdown point is the keyword argument, or with none given
\* (b = None) the default of line 518. arg_point, init_psi and consistent
\* record the arguments: the point and the flux given and whether the coil
\* set and the grid given are consistent.
BdConstruct(cs, g, p, b, ok) ==
    /\ ~bd.exists
    /\ bd' = [exists |-> TRUE, coilset |-> cs, grid |-> g,
              psi_green |-> [geom |-> cs.geom, grid |-> g],
              plasma |-> NoPlasmaCoil(g),
              breakdown_point |-> IF b = None THEN DefaultPoint(g) ELSE b,
              arg_point |-> b, init_psi |-> p, consistent |-> ok,
              last |-> "construct", ret |-> None, map |-> NoMap]
    /\ UNCHANGED <<plasma, jtor, o_points, x_points, controller, profiles,
                   li_flag, li_iter, li_temp, coilset, psi_green, gridvars, othervars,
                   pc, loc, nfev, trace, pre, outcome>>

\* what every Breakdown operation leaves alone
BdFrame ==
    UNCHANGED <<plasma, jtor, o_points, x_points, controller, profiles,
                li_flag, li_iter, li_temp, coilset, psi_green, gridvars, othervars,
                pc, loc, nfev, trace, pre, outcome>>

\* Breakdown.set_breakdown_point (lines 592-603)
BdSetBreakdownPoint(b) ==
    /\ bd.exists
    /\ bd' = [bd EXCEPT !.breakdown_point = b, !.last = "set_point",
                        !.ret = None, !.map = NoMap]
    /\ BdFrame

\* Breakdown.breakdown_psi (lines 605-615): psi(*self.breakdown_point)
BdBreakdownPsi ==
    /\ bd.exists
    /\ bd' = [bd EXCEPT !.last = "breakdown_psi",
                        !.ret = CoilPsiAt(bd.coilset, bd.breakdown_point),
                        !.map = NoMap]
    /\ BdFrame

\* Breakdown.psi() on the full grid (lines 720-721)
BdPsi ==
    /\ bd.exists
    /\ bd' = [bd EXCEPT !.last = "psi", !.ret = None,
                        !.map = GreensMap(bd.coilset, bd.psi_green)]
    /\ BdFrame

\* Breakdown.psi(x, z) at node n (line 723)
BdPsiPoint(n) ==
    /\ bd.exists
    /\ bd' = [bd EXCEPT !.last = "psi_point",
                        !.ret = CoilPsiAt(bd.coilset, n), !.map = NoMap]
    /\ BdFrame

\* CoilSetMHDState.reset_grid(grid, psi) (lines 458-483) on a Breakdown:
\* set_grid and the remap; the flux is dropped again
BdResetGrid(g, p) ==
    /\ bd.exists
    /\ bd' = [bd EXCEPT !.grid = g,
                        !.psi_green = [geom |-> bd.coilset.geom, grid |-> g],
                        !.init_psi = p, !.last = "reset_grid",
                        !.ret = None, !.map = NoMap]
    /\ BdFrame

\* the owner of the coil set changes the coil currents
BdSetCurrent(c) ==
    /\ bd.exists
    /\ c # bd.coilset.current
    /\ bd' = [bd EXCEPT !.coilset.current = c, !.last = "set_current",
                        !.ret = None, !.map = NoMap]
    /\ BdFrame

BdNext ==
    \/ \E cs \in CoilSets, g \in Grids, p \in Val \cup {None},
          b \in Nodes \cup {None}, ok \in BOOLEAN :
             BdConstruct(cs, g, p, b, ok)
    \/ \E b \in Nodes : BdSetBreakdownPoint(b)
    \/ BdBreakdownPsi
    \/ BdPsi
    \/ \E n \in Nodes : BdPsiPoint(n)
    \/ \E g \in Grids, p \in Val \cup {None} : BdResetGrid(g, p)
    \/ \E c \in Val : BdSetCurrent(c)

BdSpec == GridInit /\ [][BdNext]_vars

\* ------------------------------------------------ to_eqdsk / from_eqdsk
\* file names and headers a caller may pass to to_eqdsk; the defaults of
\* the header are "BP_equilibria" and "bluemira_equilibria"
FileStrings == {"run1", "BP_equilibria", "SCENE_run", "Fiesta_run"}

\* Python's  word in s  for the words the loader looks for
Contains(s, word) ==
    \/ word = "equilibria" /\ s = "BP_equilibria"
    \/ word = "SCENE" /\ s = "SCENE_run"

\* word in s.lower()
ContainsLower(s, word) ==
    \/ word = "equilibria" /\ s = "BP_equilibria"
    \/ word = "scene" /\ s = "SCENE_run"
    \/ word = "fiesta" /\ s = "Fiesta_run"

\* MHDState.to_eqdsk line 149: data["name"] = f"{filename}_{header}"
EqdskName(filename, header) == [file |-> filename, header |-> header]
NameContains(n, word) == Contains(n.file, word) \/ Contains(n.header, word)
NameContainsLower(n, word) ==
    ContainsLower(n.file, word) \/ ContainsLower(n.header, word)

\* the grid and coil data of the State being written (to_dict, lines
\* 912-942): grid origin, extent and resolution, coil position, half-width
\* and current
EqdskSources ==
    [xgrid1 : {0, 1}, xdim : {4}, nx : {3, 5}, xc : {1, 2}, dxc : {2, 4},
     Ic : Val, psi : Val]

\* MHDState._get_eqdsk (lines 118-135) with CoilSet.from_group_vecs(e) and
\* Grid.from_eqdsk(e): the data the reloaded State is built from
LoadEqdsk(name, d) ==
    IF NameContains(name, "equilibria") THEN d
    ELSE IF NameContains(name, "SCENE")
      THEN [d EXCEPT !.dxc = d.dxc \div 2]
    ELSE IF NameContainsLower(name, "fiesta") THEN d
    ELSE [d EXCEPT !.dxc = d.dxc \div 2, !.psi = d.psi \div 2]

EqFrame ==
    UNCHANGED <<plasma, jtor, o_points, x_points, controller, profiles,
                li_flag, li_iter, li_temp, coilset, psi_green, gridvars,
                bd, cps, tree, dup, pc, loc, nfev, trace, pre, outcome>>

\* Equilibrium.to_eqdsk(filename, header) (lines 966-988, 137-168) of a
\* State with data d
ToEqdsk(d, filename, header) ==
    /\ eqdsk' = [written |-> TRUE, name |-> EqdskName(filename, header),
                 src |-> d, data |-> d, loaded |-> FALSE, back |-> d]
    /\ EqFrame

\* Equilibrium.from_eqdsk(filename) (lines 856-873, 353-397) on the file
\* last written
FromEqdsk ==
    /\ eqdsk.written
    /\ eqdsk' = [eqdsk EXCEPT !.loaded = TRUE,
                              !.back = LoadEqdsk(eqdsk.name, eqdsk.data)]
    /\ EqFrame

EqdskNext ==
    \/ \E d \in EqdskSources, f \in FileStrings, h \in FileStrings :
          ToEqdsk(d, f, h)
    \/ FromEqdsk

EqdskSpec == GridInit /\ [][EqdskNext]_vars

\* -------------------------------------------------- ChargedParticleSolver
\* target fractions in quarters: One stands for 1.0
One == 4
FracValues == {1, 2, 3}

\* default_params (lines 59-62): 0.75, 0.25, 0.5, 0.5
DefaultFractions == [f_outer |-> 3, f_inner |-> 1, f_upper |-> 2, f_lower |-> 2]

\* configurations a caller may pass: each fraction given or left out (None)
Configs == [f_outer : FracValues \cup {None}, f_inner : FracValues \cup {None},
            f_upper : {2, 3, None}, f_lower : {2, None}]

\* ParameterFrame(default_params) then update_kw_parameters(config)
\* (lines 65-66)
ApplyConfig(cfg) ==
    [k \in DOMAIN DefaultFractions |->
        IF cfg[k] = None THEN DefaultFractions[k] ELSE cfg[k]]

\* variant: only the inner / outer sum is tested
CheckParams_first(pm) == pm.f_outer + pm.f_inner = One

\* _check_params (lines 110-123): TRUE when neither test raises
CheckParams(pm) ==
    /\ pm.f_outer + pm.f_inner = One
    /\ pm.f_upper + pm.f_lower = One

CpsFrame ==
    UNCHANGED <<plasma, jtor, o_points, x_points, controller, profiles,
                li_flag, li_iter, li_temp, coilset, psi_green, gridvars,
                bd, eqdsk, tree, dup, pc, loc, nfev, trace, pre, outcome>>

\* ChargedParticleSolver.__init__(config, equilibrium) (lines 64-88):
\* has_o tells whether the equilibrium's get_OX_points() returns an
\* O-point. A raise leaves no object; config, params, error and queried
\* record what the attempt was given, what it applied, how it ended and
\* whether line 84 was reached.
CpsConstruct(cfg, has_o) ==
    /\ ~cps.exists
    /\ LET pm == ApplyConfig(cfg) IN
         cps' = [exists |-> CheckParams(pm) /\ has_o,
                 params |-> pm,
                 config |-> cfg,
                 error |-> IF ~CheckParams(pm) THEN "AdvectionTransportError"
                           ELSE IF ~has_o THEN "IndexError" ELSE "none",
                 queried |-> CheckParams(pm),
                 ob_lfs |-> NonePts, ob_hfs |-> NonePts,
                 ib_lfs |-> NonePts, ib_hfs |-> NonePts,
                 last |-> "construct"]
    /\ CpsFrame

\* n surfaces of one group made by the call in progress
NewSurfaces(group, n) ==
    [i \in 1..n |-> [group |-> group, k |-> i, fresh |-> TRUE]]

\* a group as it is once a later call has started
Aged(g) ==
    [g EXCEPT !.pts = [i \in DOMAIN g.pts |-> [g.pts[i] EXCEPT !.fresh = FALSE]]]

\* largest number of surfaces one side gets in one analysis
MaxSurf == 2

\* analyse(first_wall) (lines 230-257, 199-228): dn is eq.is_double_null at
\* the time of the call, n_ob and n_ib the numbers of midplane steps between
\* separatrix and wall. _make_flux_surfaces_ob replaces the two outboard
\* lists; _make_flux_surfaces_ib, called for a double null only, replaces
\* the two inboard lists.
CpsAnalyse(dn, n_ob, n_ib) ==
    /\ cps.exists
    /\ cps' = [cps EXCEPT
                 !.ob_lfs = Pts(NewSurfaces("ob_lfs", n_ob)),
                 !.ob_hfs = Pts(NewSurfaces("ob_hfs", n_ob)),
                 !.ib_lfs = IF dn THEN Pts(NewSurfaces("ib_lfs", n_ib))
                            ELSE Aged(cps.ib_lfs),
                 !.ib_hfs = IF dn THEN Pts(NewSurfaces("ib_hfs", n_ib))
                            ELSE Aged(cps.ib_hfs),
                 !.last = IF dn THEN "analyse_DN" ELSE "analyse_SN"]
    /\ CpsFrame

\* the flux_surfaces property (lines 90-108)
FluxSurfaces ==
    LET part(g) == IF g.set /\ g.pts # <<>> THEN g.pts ELSE <<>>
    IN  part(cps.ob_lfs) \o part(cps.ob_hfs) \o part(cps.ib_lfs)
          \o part(cps.ib_hfs)

CpsNext ==
    \/ \E cfg \in Configs, has_o \in BOOLEAN : CpsConstruct(cfg, has_o)
    \/ \E dn \in BOOLEAN, n_ob \in 0..MaxSurf, n_ib \in 0..MaxSurf :
          CpsAnalyse(dn, n_ob, n_ib)

CpsSpec == GridInit /\ [][CpsNext]_vars

\* solves with and without supplied arrays, full-grid and point queries,
\* field queries and controller selection on one constructed object
StabNext ==
    \/ Solve
    \/ Query
    \/ PsiPointQuery
    \/ FieldQuery
    \/ \E v \in Selections : SetVcontrol(v)

StabSpec == Init /\ [][StabNext]_vars

\* ------------------------------------- duplication through the state dict
\* the solver of an object whose dict has no "_solver" entry
NoSolver == [grid |-> "none", sym |-> FALSE]

\* dict(self.__dict__) without "_solver" (lines 994-995)
GetState ==
    [plasma |-> plasma, jtor |-> jtor, o_points |-> o_points,
     x_points |-> x_points, controller |-> controller,
     profiles |-> profiles, li_flag |-> li_flag, li_iter |-> li_iter,
     li_temp |-> li_temp, coilset |-> coilset, psi_green |-> psi_green,
     grid |-> grid, boundary |-> boundary,
     force_symmetry |-> force_symmetry, kwargs |-> kwargs]

\* variant: __getstate__ pops the solver from the object's own dict
Duplicate_pop ==
    /\ pc = "idle"
    /\ dup' = [exists |-> TRUE, d |-> GetState,
               solver |-> [grid |-> GetState.grid,
                           sym |-> GetState.force_symmetry]]
    /\ solver' = NoSolver
    /\ trace' = <<"duplicate">>
    /\ pre' = Snapshot
    /\ outcome' = "ok"
    /\ loc' = NoLoc
    /\ nfev' = 0
    /\ UNCHANGED <<plasma, jtor, o_points, x_points, controller, profiles,
                   li_flag, li_iter, li_temp, coilset, psi_green, grid,
                   boundary, force_symmetry, kwargs, bd, eqdsk, cps, tree,
                   pc>>

\* new.__setstate__(eq.__getstate__()) (lines 990-1004, 1006-1018): the
\* copy of the dict loses "_solver", the object keeps its own; the new
\* object takes the dict and, "grid" being in it, set_grid(self.grid)
\* builds GSSolver(grid, force_symmetry=self.force_symmetry)
Duplicate ==
    /\ pc = "idle"
    /\ dup' = [exists |-> TRUE, d |-> GetState,
               solver |-> [grid |-> GetState.grid,
                           sym |-> GetState.force_symmetry]]
    /\ trace' = <<"duplicate">>
    /\ pre' = Snapshot
    /\ outcome' = "ok"
    /\ loc' = NoLoc
    /\ nfev' = 0
    /\ UNCHANGED <<plasma, jtor, o_points, x_points, controller, profiles,
                   li_flag, li_iter, li_temp, coilset, psi_green, gridvars,
                   bd, eqdsk, cps, tree, pc>>

\* construction with either symmetry mode, set_grid, solve and duplication
DupNext ==
    \/ \E v \in {"none", "virtual"}, g \in Grids, sym \in BOOLEAN :
          Construct(v, "plain", g, sym)
    \/ \E g \in Grids : SetGrid(g)
    \/ GridSolve
    \/ Duplicate

DupSpec == GridInit /\ [][DupNext]_vars

\* ------------------------------------------------------- Component tree
\* the Component objects and their names: two of them share a name
Comps == 1..4
CompName(c) == IF c = 1 THEN "root" ELSE IF c = 4 THEN "b" ELSE "a"

\* longest list handed to add_children
MaxList == 2

Range(s) == {s[i] : i \in 1..Len(s)}

\* lists of distinct components of length 1..MaxList
CompLists ==
    {s \in UNION {[1..n -> Comps] : n \in 1..MaxList} :
        \A i, j \in 1..Len(s) : i # j => s[i] # s[j]}

\* the nodes anytree iterates from p: p and its descendants
RECURSIVE Reach(_, _, _)
Reach(ch, S, fuel) ==
    IF fuel = 0 THEN S
    ELSE Reach(ch, S \cup UNION {Range(ch[q]) : q \in S}, fuel - 1)

Subtree(ch, p) == Reach(ch, {p}, Cardinality(Comps))

Ancestors(ch, p) == {q \in Comps \ {p} : p \in Subtree(ch, q)}

\* get_component(name) (lines 86-124) with first=True, full_tree=False:
\* the components named name among p and its descendants; None is {}
get_component(ch, p, name) == {q \in Subtree(ch, p) : CompName(q) = name}

\* self.children = L (NodeMixin): every listed component gets parent p,
\* leaving the children of the parent it had
SetChildren(ch, p, L) ==
    [q \in Comps |->
        IF q = p THEN L
        ELSE SelectSeq(ch[q], LAMBDA c : c \notin Range(L))]

TreeFrame ==
    UNCHANGED <<plasma, jtor, o_points, x_points, controller, profiles,
                li_flag, li_iter, li_temp, coilset, psi_green, gridvars,
                bd, eqdsk, cps, dup, pc, loc, nfev, trace, pre, outcome>>

\* Component(name) for every component (lines 61-71): no parent, no
\* children. last, node, args and error record the last call, the
\* component it was made on, its arguments and how it ended.
TreeConstruct ==
    /\ ~tree.exists
    /\ tree' = [exists |-> TRUE, children |-> [q \in Comps |-> <<>>],
                last |-> "construct", node |-> 0, args |-> <<>>,
                error |-> "none"]
    /\ TreeFrame

\* Component.add_child(child) on p (lines 126-145), for a child that is
\* neither p nor one of its ancestors
AddChild(p, c) ==
    /\ tree.exists
    /\ c # p
    /\ c \notin Ancestors(tree.children, p)
    /\ IF c \in Range(tree.children[p])
         THEN tree' = [tree EXCEPT !.last = "add_child", !.node = p,
                                   !.args = <<c>>,
                                   !.error = "ComponentError"]
         ELSE tree' = [tree EXCEPT
                          !.children = SetChildren(tree.children, p,
                                          tree.children[p] \o <<c>>),
                          !.last = "add_child", !.node = p,
                          !.args = <<c>>, !.error = "none"]
    /\ TreeFrame

\* variant: the names are looked for among the children only
AddChildren_direct(p, cs) ==
    /\ tree.exists
    /\ \A i \in 1..Len(cs) : cs[i] \notin Ancestors(tree.children, p)
    /\ LET duplicates ==
              {i \in 1..Len(cs) :
                  \E q \in Range(tree.children[p]) :
                      CompName(q) = CompName(cs[i])}
       IN  IF duplicates # {}
             THEN tree' = [tree EXCEPT !.last = "add_children", !.node = p,
                                       !.args = cs,
                                       !.error = "ComponentError"]
             ELSE tree' = [tree EXCEPT
                              !.children = SetChildren(tree.children, p,
                                              tree.children[p] \o cs),
                              !.last = "add_children", !.node = p,
                              !.args = cs, !.error = "none"]
    /\ TreeFrame

\* Component.add_children(children, merge_trees=False) on p with a
\* non-empty list (lines 147-181), for distinct components none of which
\* is an ancestor of p
AddChildren(p, cs) ==
    /\ tree.exists
    /\ \A i \in 1..Len(cs) : cs[i] \notin Ancestors(tree.children, p)
    /\ LET duplicates ==
              {i \in 1..Len(cs) :
                  get_component(tree.children, p, CompName(cs[i])) # {}}
       IN  IF duplicates # {}
             THEN tree' = [tree EXCEPT !.last = "add_children", !.node = p,
                                       !.args = cs,
                                       !.error = "ComponentError"]
             ELSE tree' = [tree EXCEPT
                              !.children = SetChildren(tree.children, p,
                                              tree.children[p] \o cs),
                              !.last = "add_children", !.node = p,
                              !.args = cs, !.error = "none"]
    /\ TreeFrame

TreeNext ==
    \/ TreeConstruct
    \/ \E p \in Comps, c \in Comps : AddChild(p, c)
    \/ \E p \in Comps, cs \in CompLists : AddChildren(p, cs)

TreeSpec == GridInit /\ [][TreeNext]_vars

\* ------------------------------------------------------------ properties
LastCall == IF trace = <<>> THEN "none" ELSE trace[1]
LastStep == IF trace = <<>> THEN "none" ELSE trace[Len(trace)]
IsPrefix(a, b) ==
    /\ Len(a) <= Len(b)
    /\ \A i \in 1..Len(a) : a[i] = b[i]
Count(step) == Cardinality({i \in DOMAIN trace : trace[i] = step})

SolveOrder ==
    <<"solve", "clear", "search", "jtor", "boundary", "rhs", "invert",
      "update">>
SolveOrderJtor == <<"solve", "clear", "boundary", "rhs", "invert", "update">>
LiInner == {"l_opt", "e_jtor", "e_solve", "e_li", "e_test"}

\* C1: the step that enters solve(), or solve_li() past its capability
\* check, sets both cache fields to None and changes nothing else of the
\* object, so the clearing precedes every other step of the call.
EntryClearsOnly ==
    (pc = "idle" /\ pc' # "idle") =>
        (/\ trace'[1] \in {"solve", "solve_li"}
         /\ Len(trace') = 2
         /\ o_points' = NonePts
         /\ x_points' = NonePts
         /\ plasma' = plasma
         /\ jtor' = jtor
         /\ controller' = controller
         /\ profiles' = profiles)

C1_ClearedFirst == [][EntryClearsOnly]_vars

C1_Witness ==
    /\ pc \in {"s_psi", "s_boundary", "l_psi"}
    /\ Len(trace) = 2
    /\ pre.o_points.set
    /\ ~o_points.set

\* C2: a solve() without a supplied current density takes its steps in the
\* order search, jtor, boundary, rhs, invert, update, each at most once; a
\* successful call took all of them, with the boundary update applied once
\* to the pre-solve plasma flux and before the inversion; a failed call
\* stopped at the failing step.
C2_StepOrder ==
    (LastCall = "solve" /\ loc.arg_jtor = None) =>
        /\ IsPrefix(trace, SolveOrder)
        /\ \A st \in {"search", "jtor", "boundary", "rhs", "invert",
                      "update"} : Count(st) <= 1
        /\ outcome = "ok" =>
              /\ trace = SolveOrder
              /\ plasma.psi =
                   GSSolver(Rhs(loc.jtor,
                                FreeBoundary(pre.plasma.psi, loc.jtor)))
        /\ outcome = "EquilibriaError" =>
              trace = <<"solve", "clear", "search">>

C2_Witness ==
    /\ pc = "idle"
    /\ LastCall = "solve"
    /\ loc.arg_jtor = None
    /\ loc.arg_psi = None
    /\ outcome = "ok"

\* C3: a solve() given a current density makes no critical-point search and
\* no profile evaluation, never ends in the no-O-point error, and uses the
\* given map for the boundary update, the inversion and the stored _jtor.
C3_SuppliedJtor ==
    (LastCall = "solve" /\ loc.arg_jtor # None) =>
        /\ IsPrefix(trace, SolveOrderJtor)
        /\ outcome # "EquilibriaError"
        /\ loc.jtor = loc.arg_jtor
        /\ ~o_points.set /\ ~x_points.set
        /\ controller = pre.controller
        /\ pc = "s_rhs" =>
              loc.plasma_psi = FreeBoundary(pre.plasma.psi, loc.arg_jtor)
        /\ outcome = "ok" =>
              /\ plasma =
                   PlasmaCoil(GSSolver(Rhs(loc.arg_jtor,
                                FreeBoundary(pre.plasma.psi, loc.arg_jtor))),
                              loc.arg_jtor)
              /\ jtor = loc.arg_jtor

C3_Witness ==
    /\ pc = "idle"
    /\ LastCall = "solve"
    /\ loc.arg_jtor # None
    /\ outcome = "ok"
    /\ pre.jtor # loc.arg_jtor
    /\ pre.controller.kind = "dummy"
    /\ find_OX_points((pre.plasma.psi + CoilPsi) % NVal).o = <<>>

\* C4 (as claimed): after a successful solve() the plasma model, the stored
\* _jtor and the critical-point cache belong to the same post-solve flux:
\* stored points are those of the flux the object now has.
C4_RefreshedTogether ==
    (pc = "idle" /\ LastCall = "solve" /\ outcome = "ok") =>
        /\ plasma.jtor = jtor
        /\ o_points.set =>
              /\ o_points.pts = find_OX_points(PsiFull).o
              /\ x_points.pts = find_OX_points(PsiFull).x

\* C5: a solve() without a supplied current density whose search returns no
\* O-point ends in EquilibriaError right after the search, with the plasma
\* model and the stored _jtor as they were at entry.
C5_NoOPointKeepsPlasma ==
    (/\ LastCall = "solve"
     /\ loc.arg_jtor = None
     /\ pc \notin {"s_psi", "s_search"}
     /\ loc.o_points = <<>>) =>
        /\ pc \in {"s_check", "idle"}
        /\ pc = "idle" => outcome = "EquilibriaError"
        /\ trace = <<"solve", "clear", "search">>
        /\ plasma = pre.plasma
        /\ jtor = pre.jtor

C5_Witness ==
    /\ pc = "idle"
    /\ LastCall = "solve"
    /\ outcome = "EquilibriaError"
    /\ pre.jtor # None

\* C6 (as claimed): after a solve() that failed for lack of an O-point both
\* cache fields are None, so a get_OX_points() without force_update searches.
C6_ClearedAfterFailure ==
    (pc = "idle" /\ LastCall = "solve" /\ outcome = "EquilibriaError") =>
        /\ o_points = NonePts
        /\ x_points = NonePts
        /\ NeedSearch(FALSE)

\* C7: solve_li() with a profile that lacks inductance matching ends in
\* EquilibriaError with no optimizer step taken and the object untouched.
C7_LiRejected ==
    (LastCall = "solve_li" /\ pre.profiles.kind # "betali") =>
        /\ pc = "idle"
        /\ outcome = "EquilibriaError"
        /\ trace = <<"solve_li">>
        /\ nfev = 0
        /\ plasma = pre.plasma
        /\ jtor = pre.jtor
        /\ o_points = pre.o_points
        /\ x_points = pre.x_points
        /\ profiles = pre.profiles
        /\ controller = pre.controller
        /\ li_iter = pre.li_iter
        /\ li_temp = pre.li_temp

C7_Witness ==
    /\ LastCall = "solve_li"
    /\ outcome = "EquilibriaError"
    /\ o_points.set
    /\ jtor # None

\* relative difference of the retained inductance from the target is at or
\* below the tolerance
RelDiffOK == Abs(li_temp - LiTarget) * TolDen <= TolNum * LiTarget

\* C8: an objective evaluation whose inductance is within the relative
\* tolerance never hands control back to the optimizer; solve_li then
\* returns normally with the retained inductance within the tolerance.
C8_EarlyExit ==
    (LastCall = "solve_li" /\ nfev >= 1) =>
        /\ pc = "l_opt" => ~RelDiffOK
        /\ (pc = "idle" /\ RelDiffOK) =>
              (outcome = "ok" /\ LastStep = "stop")
        /\ (pc = "idle" /\ LastStep = "stop") =>
              (outcome = "ok" /\ RelDiffOK)

C8_Witness ==
    /\ pc = "idle"
    /\ LastCall = "solve_li"
    /\ LastStep = "stop"
    /\ outcome = "ok"
    /\ li_temp # LiTarget
    /\ nfev >= 2

\* C9: a solve_li() call never starts more objective evaluations than the
\* optimizer's budget, and every call that was entered ends.
C9_Terminates ==
    /\ [](nfev <= MaxEval /\ Count("eval") <= nfev)
    /\ (LastCall = "solve_li" /\ pc # "idle") ~> (pc = "idle")

C9_Witness ==
    /\ pc = "idle"
    /\ LastCall = "solve_li"
    /\ nfev = MaxEval
    /\ LastStep \in {"finish", "fail"}

\* C10: inside solve_li the critical points are located once, before the
\* first objective evaluation; from then until the call ends the cache and
\* the points, flux map and mask held by the objective stay as the search
\* left them, and each evaluation's current density is computed from them.
InnerKeepsPoints ==
    pc \in LiInner =>
        (/\ o_points' = o_points
         /\ x_points' = x_points
         /\ loc'.psi = loc.psi
         /\ loc'.o_points = loc.o_points
         /\ loc'.x_points = loc.x_points
         /\ loc'.mask = loc.mask)

C10_PointsFixed ==
    /\ []((/\ LastCall = "solve_li"
           /\ \/ pc \in LiInner
              \/ (pc = "idle" /\ outcome \in {"ok", "OptimisationError"})) =>
             /\ Count("search") = 1
             /\ trace[3] = "search"
             /\ o_points = Pts(loc.o_points)
             /\ x_points = Pts(loc.x_points)
             /\ loc.o_points = find_OX_points(loc.psi).o
             /\ loc.x_points = find_OX_points(loc.psi).x
             /\ loc.arg_psi # None => loc.psi = loc.arg_psi
             /\ pc \in {"e_solve", "e_li", "e_test"} =>
                   loc.jtor = ProfileJtor(profiles.coeffs, loc.psi,
                                          loc.o_points, loc.x_points))
    /\ [][InnerKeepsPoints]_vars

C10_Witness ==
    /\ pc = "e_solve"
    /\ nfev >= 2
    /\ PsiFull # loc.psi
    /\ o_points.set

\* C11 (as claimed): when solve_li() returns, the retained iteration count
\* equals the number of objective evaluations the call performed.
C11_IterCount ==
    (pc = "idle" /\ LastCall = "solve_li" /\ outcome = "ok") =>
        li_iter = nfev

\* C12 (as claimed): while a solve_li() is in progress, a step that is not
\* a step of that call writes neither the plasma model, the stored _jtor
\* nor the critical-point cache, since a second solve or solve_li on the
\* same object is rejected.
NoForeignWrite ==
    (pc # "idle" /\ LastCall = "solve_li" /\ pc' = pc /\ loc' = loc
     /\ nfev' = nfev) =>
        (/\ plasma' = plasma
         /\ jtor' = jtor
         /\ o_points' = o_points
         /\ x_points' = x_points)

C12_Guarded == [][NoForeignWrite]_vars

\* the controller kind a valid selection stands for
KindOf(v) == IF v = "virtual" THEN "virtual" ELSE "dummy"

\* the controller variant changes only in construction, set_vcontrol and
\* reset_grid
KindKept ==
    controller'.kind # controller.kind =>
        trace'[1] \in {"construct", "set_vcontrol", "reset_grid"}

\* C13: a construction with a selection other than None or "virtual" ends
\* in an error and leaves no object; an object that exists has a dummy or
\* virtual controller, the one of the selection last applied; set_vcontrol
\* rejects the same selections and then leaves the controller as it was;
\* reset_grid re-selects from the stored selection, which is always valid.
C13_VcontrolValidated ==
    /\ [](/\ (pc = "new" /\ LastCall = "construct") =>
                (/\ trace[2] \notin {"none", "virtual"}
                 /\ outcome \in {"NotImplementedError", "ValueError"})
          /\ pc # "new" =>
                (/\ controller.kind \in {"dummy", "virtual"}
                 /\ kwargs \in {"none", "virtual"})
          /\ (pc = "idle" /\ LastCall = "construct") =>
                (/\ trace[2] \in {"none", "virtual"}
                 /\ controller.kind = KindOf(trace[2]))
          /\ LastCall = "set_vcontrol" =>
                IF trace[2] \in {"none", "virtual"}
                  THEN outcome = "ok" /\ controller.kind = KindOf(trace[2])
                  ELSE /\ outcome \in {"NotImplementedError", "ValueError"}
                       /\ controller = pre.controller
          /\ LastCall = "reset_grid" =>
                IF outcome = "ok"
                  THEN controller.kind = KindOf(kwargs)
                  ELSE controller = pre.controller)
    /\ [][KindKept]_vars

C13_Witness ==
    /\ pc = "new"
    /\ LastCall = "construct"
    /\ trace[2] = "other"
    /\ outcome = "ValueError"

\* C14 (as claimed): after set_grid or reset_grid the solver, the Green's
\* matrices, the free-boundary operator and the plasma model are those of
\* the new grid, and the stored _jtor and the critical-point cache are
\* cleared.
C14_GridInvalidates ==
    (pc = "idle" /\ LastCall \in {"set_grid", "reset_grid"}
     /\ outcome = "ok") =>
        /\ solver.grid = grid
        /\ psi_green.grid = grid
        /\ boundary.grid = grid
        /\ plasma.grid = grid
        /\ jtor = None
        /\ ~o_points.set
        /\ ~x_points.set

\* the solver is replaced only by construction, set_grid, reset_grid and
\* state restore
SolverKept ==
    solver' # solver =>
        trace'[1] \in {"construct", "set_grid", "reset_grid", "setstate"}

\* C15: the solver of an existing object is always the one built for its
\* present grid and symmetry mode; it is replaced only when a grid is set,
\* and every step of solve() and solve_li() keeps the solver the call
\* found at entry.
C15_SolverReused ==
    /\ [](/\ pc # "new" => solver = [grid |-> grid, sym |-> force_symmetry]
          /\ LastCall \in {"solve", "solve_li"} => solver = pre.solver)
    /\ [][SolverKept]_vars

C15_Witness ==
    /\ pc = "idle"
    /\ LastCall = "solve_li"
    /\ outcome = "ok"
    /\ nfev = MaxEval
    /\ solver = [grid |-> "g2", sym |-> TRUE]

\* the Green's matrices are written only by construction and reset_grid
GreensKept ==
    psi_green' # psi_green => trace'[1] \in {"construct", "reset_grid"}

\* C16: the Green's matrices change only in construction and reset_grid,
\* which build them for the coil geometry and grid of that moment; every
\* other step (solve, solve_li, set_vcontrol, queries, a coil move) leaves
\* them as they were.
C16_RemapExplicit ==
    /\ []((pc = "idle" /\ LastCall \in {"construct", "reset_grid"}) =>
             psi_green = Greens(grid))
    /\ [][GreensKept]_vars

C16_Witness ==
    /\ pc = "idle"
    /\ LastCall \in {"psi", "field"}
    /\ psi_green.geom # coilset.geom
    /\ CoilPsi # CoilPsiPoint

\* C17 (as claimed): a point query psi(x, z) at a grid node returns the
\* value the full-grid map has at that node: plasma, coil and controller
\* contributions.
C17_PointEqualsGrid ==
    (pc = "idle" /\ LastCall = "psi_point") => loc.psi = PsiFull

\* the smallest member of a non-empty set of numbers
MinOf(S) == CHOOSE m \in S : \A n \in S : m <= n

\* C18 (as claimed): breakdown_psi returns the minimum of the flux over the
\* boundary of the breakdown region around the breakdown point.
C18_MinOverBoundary ==
    (bd.exists /\ bd.last = "breakdown_psi") =>
        bd.ret = MinOf({CoilPsiAt(bd.coilset, n) :
                           n \in RegionBoundary(bd.breakdown_point)})

\* C19: a Breakdown always has the no-plasma model; its full-grid flux is
\* the cached matrices combined with the present coil currents and a point
\* flux is the coil flux at that point, whatever flux array was given at
\* construction or reset.
C19_CoilOnly ==
    bd.exists =>
        /\ bd.plasma = NoPlasmaCoil(bd.plasma.grid)
        /\ bd.last = "psi" =>
              bd.map = [n \in Nodes |->
                          (bd.coilset.current
                             * (Response(bd.psi_green.geom) + n)) % NVal]
        /\ bd.last \in {"psi_point", "breakdown_psi"} =>
              \E n \in Nodes : bd.ret = CoilPsiAt(bd.coilset, n)

C19_Witness ==
    /\ bd.exists
    /\ bd.last = "psi"
    /\ bd.init_psi # None
    /\ \E n \in Nodes : bd.map[n] # bd.init_psi
    /\ bd.coilset.current # 0

\* C20 (as claimed): a Breakdown exists only for a coil set and grid that
\* are consistent; a construction with an inconsistent pair is rejected.
C20_ConsistencyChecked == bd.exists => bd.consistent

\* the controller after the psi() call of an argument-free solve() entered
\* with controller c and stored current density j (lines 1351-1352)
EntryController(c, j) == IF j # None THEN Stabilise(c, j) ELSE c

\* what an argument-free solve() (lines 1084-1104) leaves behind when it is
\* entered with plasma flux p, stored current density j, controller c and
\* shape coefficients a: whether it succeeded, the plasma flux, the stored
\* current density and the cached points
SolveEnd(p, j, c, a) ==
    LET psi0 == (p + CoilPsi + EntryController(c, j).corr) % NVal
        r == find_OX_points(psi0)
        jnew == ProfileJtor(a, psi0, r.o, r.x)
    IN  IF r.o = <<>>
          THEN [ok |-> FALSE, psi |-> p, jtor |-> j, o |-> r.o, x |-> r.x]
          ELSE [ok |-> TRUE,
                psi |-> GSSolver(Rhs(jnew, FreeBoundary(p, jnew))),
                jtor |-> jnew, o |-> r.o, x |-> r.x]

\* two ends of a solve agree on flux map, stored current density of a
\* successful solve, and cached points
SameEnd(e1, e2) ==
    /\ e1.ok = e2.ok
    /\ e1.psi = e2.psi
    /\ e1.o = e2.o
    /\ e1.x = e2.x
    /\ e1.ok => e1.jtor = e2.jtor

\* an argument-free solve() has ended, successfully or for lack of an
\* O-point
SolveEnded ==
    /\ pc = "idle"
    /\ LastCall = "solve"
    /\ loc.arg_jtor = None
    /\ loc.arg_psi = None

\* C21 (as claimed): two objects that agree on coil currents, profile
\* parameters, plasma flux and controller state end an argument-free
\* solve() with equal flux, stored current density and cache, whatever
\* current density each had stored at entry. The objects compared are
\* freshly constructed ones (controller correction and coefficients zero),
\* which exist for every stored current density.
C21_SameFromListed ==
    (SolveEnded /\ pre.controller.corr = 0 /\ pre.profiles.coeffs = 0) =>
        \A j2 \in Val \cup {None} :
            SameEnd(SolveEnd(pre.plasma.psi, pre.jtor, pre.controller,
                             pre.profiles.coeffs),
                    SolveEnd(pre.plasma.psi, j2, pre.controller,
                             pre.profiles.coeffs))

\* C21 (amended): the end of an argument-free solve() is a function of coil
\* currents, shape coefficients, plasma flux, controller state and the
\* current density stored at entry: objects that agree on these five end
\* with equal flux, stored current density, cache and controller.
C21_Deterministic ==
    SolveEnded =>
        LET e == SolveEnd(pre.plasma.psi, pre.jtor, pre.controller,
                          pre.profiles.coeffs)
        IN  /\ e.ok = (outcome = "ok")
            /\ plasma.psi = e.psi
            /\ jtor = e.jtor
            /\ o_points = Pts(e.o)
            /\ x_points = Pts(e.x)
            /\ controller = EntryController(pre.controller, pre.jtor)

C21_Witness ==
    /\ SolveEnded
    /\ outcome = "ok"
    /\ pre.jtor # None
    /\ ~SameEnd(SolveEnd(pre.plasma.psi, pre.jtor, pre.controller,
                         pre.profiles.coeffs),
                SolveEnd(pre.plasma.psi, None, pre.controller,
                         pre.profiles.coeffs))

\* C22 (as claimed): a State written with to_eqdsk under any file name and
\* header and read back with from_eqdsk has the grid origin, extent and
\* resolution and the coil position, size and current it was written with.
C22_RoundTrip ==
    (eqdsk.written /\ eqdsk.loaded) =>
        /\ eqdsk.back.xgrid1 = eqdsk.src.xgrid1
        /\ eqdsk.back.xdim = eqdsk.src.xdim
        /\ eqdsk.back.nx = eqdsk.src.nx
        /\ eqdsk.back.xc = eqdsk.src.xc
        /\ eqdsk.back.dxc = eqdsk.src.dxc
        /\ eqdsk.back.Ic = eqdsk.src.Ic

\* C23: a construction ends in AdvectionTransportError exactly when the
\* applied outer + inner fractions or the applied upper + lower fractions
\* do not sum to 1.0; it then has not queried the equilibrium and leaves no
\* object, so every solver that exists has fractions passing both sums.
C23_FractionsChecked ==
    /\ cps.last = "construct" =>
          /\ (cps.error = "AdvectionTransportError") <=>
                (\/ cps.params.f_outer + cps.params.f_inner # One
                 \/ cps.params.f_upper + cps.params.f_lower # One)
          /\ cps.error = "AdvectionTransportError" =>
                (~cps.queried /\ ~cps.exists)
    /\ cps.exists =>
          /\ cps.params.f_outer + cps.params.f_inner = One
          /\ cps.params.f_upper + cps.params.f_lower = One

C23_Witness ==
    /\ cps.last = "construct"
    /\ cps.error = "AdvectionTransportError"
    /\ cps.params.f_outer + cps.params.f_inner = One
    /\ cps.params.f_upper + cps.params.f_lower # One

\* C30 (as claimed): after analyse() returns, flux_surfaces holds exactly
\* the surfaces made during that call, outboard groups before inboard
\* groups; no surface made by an earlier call remains.
C30_OnlyThisCall ==
    (cps.exists /\ cps.last \in {"analyse_SN", "analyse_DN"}) =>
        \A i \in DOMAIN FluxSurfaces : FluxSurfaces[i].fresh

\* a get_OX_points(psi, force_update) step searches exactly when both cache
\* fields are None or force_update is true, and otherwise leaves the cache
\* as it was
GetSearchesWhenNeeded ==
    \A p \in Val \cup {None}, force \in BOOLEAN :
        GetOXPoints(p, force) =>
            IF force \/ (~o_points.set /\ ~x_points.set)
              THEN /\ trace' = <<"get_OX_points", "search">>
                   /\ LET r == find_OX_points(IF p = None THEN PsiFull
                                              ELSE p)
                      IN  o_points' = Pts(r.o) /\ x_points' = Pts(r.x)
              ELSE /\ trace' = <<"get_OX_points">>
                   /\ o_points' = o_points
                   /\ x_points' = x_points

\* C24: get_OX_points() searches and overwrites the cache only when both
\* cache fields are None or force_update is true, and otherwise returns
\* the stored pair as it is whatever flux map is passed; the two cache
\* fields are always both None or both the result of one search.
C24_CacheDiscipline ==
    /\ [](/\ o_points.set = x_points.set
          /\ o_points.set =>
                \E psi \in Val : /\ o_points.pts = find_OX_points(psi).o
                                 /\ x_points.pts = find_OX_points(psi).x)
    /\ [][GetSearchesWhenNeeded]_vars

C24_Witness ==
    /\ pc = "idle"
    /\ trace = <<"get_OX_points">>
    /\ o_points.set
    /\ o_points.pts # find_OX_points(PsiFull).o

\* a step that evaluates the full-grid branch of psi(): the default of
\* solve(), a psi() call, or the default of a searching get_OX_points()
FullPsiStep ==
    \/ SolvePsi /\ loc.psi = None
    \/ PsiQuery
    \/ \E force \in BOOLEAN : NeedSearch(force) /\ GetOXPoints(None, force)

SelectStep == \E v \in Selections : SetVcontrol(v)

StabiliseOnlyInFullPsi ==
    /\ FullPsiStep =>
          controller' = IF jtor # None THEN Stabilise(controller, jtor)
                        ELSE controller
    /\ ~FullPsiStep /\ ~SelectStep => controller' = controller

\* C25: stabilise() is applied once by each full-grid psi() made while
\* _jtor is not None and by nothing else: not while _jtor is None, not by
\* point or field queries, not by solve(jtor=J); the controller changes
\* only in full-grid flux queries and in set_vcontrol.
C25_StabiliseFrame == [][StabiliseOnlyInFullPsi]_vars

C25_Witness ==
    /\ pc = "idle"
    /\ trace = <<"psi">>
    /\ jtor # None
    /\ controller # pre.controller
    /\ controller = Stabilise(pre.controller, jtor)

\* C26: when solve_li() returns, by the early exit or by the optimizer's
\* own termination, the cached current density and the plasma model are
\* those of the nested solve evaluated with the profile coefficients as
\* they stand at return.
C26_ConsistentAtReturn ==
    (/\ pc = "idle"
     /\ outcome = "ok"
     /\ Len(trace) > 0
     /\ trace[1] = "solve_li") =>
        /\ jtor = ProfileJtor(profiles.coeffs, loc.psi, loc.o_points,
                              loc.x_points)
        /\ plasma.jtor = jtor

\* C27: a Breakdown constructed without a breakdown_point has its breakdown
\* point at the grid centre, x = (x_min + x_max) / 2, for every grid.
C27_DefaultIsCentre ==
    (bd.exists /\ bd.arg_point = None) =>
        2 * bd.breakdown_point = GridX(bd.grid).x_min + GridX(bd.grid).x_max

DuplicateStep == pc = "idle" /\ trace' = <<"duplicate">>

DuplicateKeepsAllButSolver ==
    DuplicateStep =>
        /\ dup'.exists
        /\ "solver" \notin DOMAIN dup'.d
        /\ dup'.d.plasma = plasma /\ dup'.d.jtor = jtor
        /\ dup'.d.o_points = o_points /\ dup'.d.x_points = x_points
        /\ dup'.d.controller = controller /\ dup'.d.profiles = profiles
        /\ dup'.d.li_flag = li_flag /\ dup'.d.li_iter = li_iter
        /\ dup'.d.li_temp = li_temp /\ dup'.d.coilset = coilset
        /\ dup'.d.psi_green = psi_green /\ dup'.d.grid = grid
        /\ dup'.d.boundary = boundary
        /\ dup'.d.force_symmetry = force_symmetry
        /\ dup'.d.kwargs = kwargs
        /\ dup'.solver = [grid |-> grid, sym |-> force_symmetry]
        /\ UNCHANGED <<plasma, jtor, o_points, x_points, controller,
                       profiles, li_flag, li_iter, li_temp, coilset,
                       psi_green, gridvars>>

\* C28: duplication through __getstate__/__setstate__ keeps every field
\* but the solver; the original keeps its solver and all its fields, and
\* the duplicate gets a solver built for its grid and symmetry mode.
C28_DuplicateKeepsFields == [][DuplicateKeepsAllButSolver]_vars

C28_Witness ==
    /\ dup.exists
    /\ trace = <<"duplicate">>
    /\ dup.d.jtor # None
    /\ dup.d.force_symmetry
    /\ dup.d.grid = "g2"
    /\ solver = dup.solver

AddStepAsClaimed ==
    (tree.exists /\ tree' # tree) =>
        LET p == tree'.node
            cs == tree'.args
            ch == tree.children
            named == \E i \in 1..Len(cs), q \in Subtree(ch, p) :
                        CompName(q) = CompName(cs[i])
            raised == /\ tree'.error = "ComponentError"
                      /\ tree'.children = ch
            appended == /\ tree'.error = "none"
                        /\ tree'.children[p] = ch[p] \o cs
        IN  /\ tree'.last = "add_child" =>
                 IF cs[1] \in Range(ch[p]) THEN raised ELSE appended
            /\ tree'.last = "add_children" =>
                 IF named THEN raised ELSE appended

====
